---- MODULE Spec2Model ----
(***************************************************************************)
(* MultiSelfPlayGames (src/selfplay/multigame.cc): a batch of self-play    *)
(* games advanced in lock-step by one PolicyEvaluator, with an optional    *)
(* Syzygy tablebase adjudication and a cooperative Abort().                *)
(*                                                                         *)
(* The board, the rules engine, the tablebase files and the network are    *)
(* collaborators of multigame.cc.  They are represented by a small finite  *)
(* game: a board is a number, a move is a number, and the collaborators    *)
(* are fixed functions of the board (GenerateLegalMoves, ApplyMove,        *)
(* ComputeGameResult, probe_wdl, NetworkOutput).                           *)
(***************************************************************************)
EXTENDS Integers, Sequences, FiniteSets, TLC

\* ------------------------------------------------------------------ bounds
\* openings.size(): the number of games of one MultiSelfPlayGames.
NumGames == 2
\* The rules engine's move-count limit: a game of MaxPly plies is a draw.
MaxPly == 4

\* ------------------------------------------------------- enumerated values
UNDECIDED == "UNDECIDED"
WHITE_WON == "WHITE_WON"
BLACK_WON == "BLACK_WON"
DRAW == "DRAW"
GameResult == {UNDECIDED, WHITE_WON, BLACK_WON, DRAW}

FAIL == "FAIL"
OK == "OK"
CHANGE_STM == "CHANGE_STM"
ZEROING_BEST_MOVE == "ZEROING_BEST_MOVE"

WDL_LOSS == "WDL_LOSS"
WDL_BLESSED_LOSS == "WDL_BLESSED_LOSS"
WDL_DRAW == "WDL_DRAW"
WDL_CURSED_WIN == "WDL_CURSED_WIN"
WDL_WIN == "WDL_WIN"

\* ------------------------------------------------- the collaborators' game
Boards == 0 .. 10
Moves == 0 .. 2
\* Move(): the default-constructed move.
NullMove == 0

\* board.GenerateLegalMoves(): boards 0 and 1 have no legal move (0 is a
\* checkmate, 1 a stalemate); board 3 has two candidates, the others three.
GenerateLegalMoves(board) ==
  IF board \in {0, 1} THEN << >>
  ELSE IF board = 3 THEN <<0, 1>>
  ELSE <<0, 1, 2>>

\* The position reached from a board by a move: row board + 1, column
\* move + 1.
MoveTable ==
  << <<0, 0, 0>>, <<1, 1, 1>>, <<3, 4, 9>>, <<2, 6, 0>>, <<7, 2, 1>>,
     <<2, 7, 4>>, <<7, 0, 5>>, <<4, 1, 8>>, <<3, 5, 0>>, <<2, 5, 10>>,
     <<3, 0, 9>> >>
ApplyMove(board, move) == MoveTable[board + 1][move + 1]

\* The side to move is in check (decides checkmate against stalemate).
IsUnderCheck(board) == board = 0

\* tree->GetPlyCount() % 2 == 1, also PositionHistory::IsBlackToMove().
IsBlackToMove(tree) == (tree.ply % 2) = 1

\* PositionHistory::ComputeGameResult(): no legal move is a checkmate (the
\* side to move lost) or a stalemate; the move-count limit is a draw.
ComputeGameResult(tree) ==
  IF GenerateLegalMoves(tree.board) = << >>
  THEN IF IsUnderCheck(tree.board)
       THEN (IF IsBlackToMove(tree) THEN WHITE_WON ELSE BLACK_WON)
       ELSE DRAW
  ELSE IF tree.ply >= MaxPly THEN DRAW
  ELSE UNDECIDED

\* board.castlings().no_legal_castle() and piece count within
\* syzygy_tb_->max_cardinality(): boards 2..8 are such endgames.
TablebaseEligible(board) == board \in 2 .. 8

\* syzygy_tb_->probe_wdl(position, &state): a fixed function of the position.
probe_wdl(board) ==
  CASE board = 2 -> [state |-> OK, wdl |-> WDL_WIN]
    [] board = 3 -> [state |-> OK, wdl |-> WDL_LOSS]
    [] board = 4 -> [state |-> OK, wdl |-> WDL_DRAW]
    [] board = 5 -> [state |-> FAIL, wdl |-> WDL_DRAW]
    [] board = 6 -> [state |-> OK, wdl |-> WDL_CURSED_WIN]
    [] board = 7 -> [state |-> ZEROING_BEST_MOVE, wdl |-> WDL_BLESSED_LOSS]
    [] board = 8 -> [state |-> CHANGE_STM, wdl |-> WDL_WIN]
    [] OTHER -> [state |-> FAIL, wdl |-> WDL_DRAW]

\* ------------------------------------------------------------ the network
\* player.network: player1 owns network 0, player2 network 1.
Networks == {0, 1}
\* GetCapabilities().input_format: network 0 takes the classical encoding,
\* network 1 a canonical one that may flip the board.
InputFormatOf(network) == IF network = 0 THEN "CLASSICAL" ELSE "CANONICAL"

\* The preference of a network for a move in a position (integer scores
\* stand for the floats; equal scores occur).
Policy(network, board, move) == (board * (move + 1) + network + move * move) % 3

\* EncodePositionForNN(input_format, history, 8, FEN_ONLY, &transform): the
\* planes show the board under the transform chosen for it.
TransformOf(input_format, board) ==
  IF input_format = "CLASSICAL" THEN 0 ELSE board % 2
EncodePositionForNN(input_format, tree) ==
  [planes |-> [board |-> tree.board,
               transform |-> TransformOf(input_format, tree.board)],
   transform |-> TransformOf(input_format, tree.board)]

\* Move::as_nn_index(transform): the index of the move in the policy head,
\* mirrored when the transform flips the board.
as_nn_index(move, transform) == IF transform = 0 THEN move ELSE 2 - move

\* The policy head for one input: index k holds the preference for the move
\* whose index under the input's own transform is k.
NetworkOutput(network, planes, k) ==
  Policy(network, planes.board, IF planes.transform = 0 THEN k ELSE 2 - k)

\* ---------------------------------------------------------------- NodeTree
\* ResetToPosition(start_fen, {}): start_fen carries the board and the ply.
ResetToPosition(start_fen) ==
  [board |-> start_fen.board, ply |-> start_fen.ply, moves |-> << >>,
   edges |-> << >>]

\* NodeTree::MakeMove(move): the new head has no edges yet.
MakeMove(tree, move) ==
  [board |-> ApplyMove(tree.board, move), ply |-> tree.ply + 1,
   moves |-> Append(tree.moves, move), edges |-> << >>]

\* GetCurrentHead()->CreateEdges(legal_moves)
CreateEdges(tree, legal_moves) == [tree EXCEPT !.edges = legal_moves]

\* --------------------------------------------------------------- openings
\* Opening: a start position (board and ply of the FEN) and the forced moves.
Opening(board, ply, moves) ==
  [start_fen |-> [board |-> board, ply |-> ply], moves |-> moves]
\* The opening book the games are drawn from: middlegames with and without a
\* forced move (into a won endgame, an endgame the probe fails on, a lost
\* endgame, a checkmate) and bare endgames.
Openings ==
  {Opening(9, 0, << >>), Opening(9, 0, <<0>>), Opening(9, 0, <<1>>),
   Opening(9, 0, <<2>>), Opening(10, 1, << >>), Opening(10, 1, <<0>>),
   Opening(10, 1, <<1>>), Opening(5, 0, << >>), Opening(2, 0, << >>),
   Opening(3, 1, << >>), Opening(8, 0, << >>),
   Opening(6, 1, << >>)}

RECURSIVE ReplayMoves(_, _)
ReplayMoves(tree, moves) ==
  IF moves = << >> THEN tree
  ELSE ReplayMoves(MakeMove(tree, Head(moves)), Tail(moves))

VARIABLES
  trees,        \* trees_
  results,      \* results_
  options,      \* options_[0], options_[1] as <<player1, player2>>
  syzygy_tb,    \* syzygy_tb_ != nullptr
  abort,        \* abort_
  evaluator,    \* the PolicyEvaluator of Play()
  pc,           \* where Play() stands
  i,            \* the index of the running for loop (1-based)
  all_done,     \* local of Play()
  blacks_move,  \* local of Play()
  openings,     \* the constructor's argument, kept for reference
  iter,         \* number of iterations that passed the cancellation check
  calls,        \* the Evaluator calls of the current (or last) iteration
  passed_over   \* the sessions the last completed iteration left UNDECIDED
                \* without a move

vars == <<trees, results, options, syzygy_tb, abort, evaluator, pc, i,
          all_done, blacks_move, openings, iter, calls, passed_over>>

Games == 1 .. NumGames

\* ------------------------------------------------------- PolicyEvaluator
\* make_unique<PolicyEvaluator>(): value-initialized, so comp is null (no
\* input), comp_idx is 0 and transforms is empty; Reset assigns them before
\* any of them is read.
NewPolicyEvaluator ==
  [network |-> 0, comp |-> << >>, computed |-> FALSE,
   input_format |-> "CLASSICAL", comp_idx |-> 0, transforms |-> << >>]

\* PolicyEvaluator::Reset(player)
\* Reset without transforms.clear().
ResetNoClear(ev, player) ==
  [ev EXCEPT !.network = player.network, !.comp = << >>, !.computed = FALSE,
             !.input_format = InputFormatOf(player.network), !.comp_idx = 0]
Reset(ev, player) ==
  [ev EXCEPT !.network = player.network, !.comp = << >>, !.computed = FALSE,
             !.input_format = InputFormatOf(player.network),
             !.transforms = << >>, !.comp_idx = 0]

\* PolicyEvaluator::Gather(tree)
Gather(ev, tree) ==
  LET enc == EncodePositionForNN(ev.input_format, tree)
  IN [ev EXCEPT !.transforms = Append(@, enc.transform),
                !.comp = Append(@, enc.planes)]

\* PolicyEvaluator::Run(): comp->ComputeBlocking()
Run(ev) == [ev EXCEPT !.computed = TRUE]

\* comp->GetPVal(sample, move_id); comp_idx counts from 0.
GetPVal(ev, sample, move_id) ==
  IF sample + 1 \in 1 .. Len(ev.comp)
  THEN NetworkOutput(ev.network, ev.comp[sample + 1], move_id)
  ELSE 0

\* transforms[comp_idx]
TransformAt(ev, idx) ==
  IF idx + 1 \in 1 .. Len(ev.transforms) THEN ev.transforms[idx + 1] ELSE 0

\* std::numeric_limits<float>::lowest()
Lowest == -1

\* The loop with p > max_p for p >= max_p.
RECURSIVE BestLoop_FirstWins(_, _, _, _, _)
BestLoop_FirstWins(ev, edges, k, max_p, best) ==
  IF k > Len(edges) THEN best
  ELSE LET p == GetPVal(ev, ev.comp_idx,
                        as_nn_index(edges[k], TransformAt(ev, ev.comp_idx)))
       IN IF p > max_p
          THEN BestLoop_FirstWins(ev, edges, k + 1, p, edges[k])
          ELSE BestLoop_FirstWins(ev, edges, k + 1, max_p, best)
\* The for loop of MakeBestMove over the edges k..Len(edges).
RECURSIVE BestLoop(_, _, _, _, _)
BestLoop(ev, edges, k, max_p, best) ==
  IF k > Len(edges) THEN best
  ELSE LET p == GetPVal(ev, ev.comp_idx,
                        as_nn_index(edges[k], TransformAt(ev, ev.comp_idx)))
       IN IF p >= max_p
          THEN BestLoop(ev, edges, k + 1, p, edges[k])
          ELSE BestLoop(ev, edges, k + 1, max_p, best)

\* The move PolicyEvaluator::MakeBestMove(tree) applies.
BestMove(ev, tree) == BestLoop(ev, tree.edges, 1, Lowest, NullMove)

\* MakeBestMove that applies the best move and then the default move as well.
MakeBestMove_TwoMoves(ev, tree) ==
  [ev |-> [ev EXCEPT !.comp_idx = @ + 1],
   tree |-> MakeMove(MakeMove(tree, BestMove(ev, tree)), NullMove)]
\* PolicyEvaluator::MakeBestMove(tree): the evaluator and the tree after it.
MakeBestMove(ev, tree) ==
  [ev |-> [ev EXCEPT !.comp_idx = @ + 1],
   tree |-> MakeMove(tree, BestMove(ev, tree))]

\* ---------------------------------------------------- MultiSelfPlayGames
\* The constructor: one tree and one UNDECIDED result per opening.
Init ==
  /\ openings \in [Games -> Openings]
  /\ trees = [g \in Games |->
                ReplayMoves(ResetToPosition(openings[g].start_fen),
                            openings[g].moves)]
  /\ results = [g \in Games |-> UNDECIDED]
  /\ options = <<[network |-> 0], [network |-> 1]>>
  /\ syzygy_tb \in BOOLEAN
  /\ abort = FALSE
  /\ evaluator = NewPolicyEvaluator
  /\ pc = "check"
  /\ i = 1
  /\ all_done = TRUE
  /\ blacks_move = FALSE
  /\ iter = 0
  /\ calls = << >>
  /\ passed_over = {}

\* Abort() that flips abort_ instead of setting it.
Abort_Toggle ==
  /\ abort' = ~abort
  /\ UNCHANGED <<trees, results, options, syzygy_tb, evaluator, pc, i,
                 all_done, blacks_move, openings, passed_over, iter, calls>>
\* MultiSelfPlayGames::Abort()
Abort ==
  /\ abort' = TRUE
  /\ UNCHANGED <<trees, results, options, syzygy_tb, evaluator, pc, i,
                 all_done, blacks_move, openings, passed_over, iter, calls>>

\* Play(): the cancellation check at the top of the while loop, then the
\* locals of the scan.
\* The check made at the end of the loop body (do ... while).
CheckAbort_AtLoopEnd ==
  /\ pc = "check"
  /\ IF abort /\ iter > 0
     THEN /\ pc' = "done"
          /\ UNCHANGED <<i, all_done, blacks_move, iter, calls>>
     ELSE /\ pc' = "scan"
          /\ i' = 1
          /\ all_done' = TRUE
          /\ blacks_move' = FALSE
          /\ iter' = iter + 1
          /\ calls' = << >>
  /\ UNCHANGED <<trees, results, options, syzygy_tb, abort, evaluator, openings, passed_over>>
\* The check made once, before the loop.
CheckAbort_BeforeLoopOnly ==
  /\ pc = "check"
  /\ IF abort /\ iter = 0
     THEN /\ pc' = "done"
          /\ UNCHANGED <<i, all_done, blacks_move, iter, calls>>
     ELSE /\ pc' = "scan"
          /\ i' = 1
          /\ all_done' = TRUE
          /\ blacks_move' = FALSE
          /\ iter' = iter + 1
          /\ calls' = << >>
  /\ UNCHANGED <<trees, results, options, syzygy_tb, abort, evaluator, openings, passed_over>>
CheckAbort ==
  /\ pc = "check"
  /\ IF abort
     THEN /\ pc' = "done"
          /\ UNCHANGED <<i, all_done, blacks_move, iter, calls>>
     ELSE /\ pc' = "scan"
          /\ i' = 1
          /\ all_done' = TRUE
          /\ blacks_move' = FALSE
          /\ iter' = iter + 1
          /\ calls' = << >>
  /\ UNCHANGED <<trees, results, options, syzygy_tb, abort, evaluator, openings, passed_over>>

\* tb_side_black and the translation of a usable probe (lines 126-141).
\* tb_side_black taken from an even ply count.
TablebaseResult_WhiteOnOddPly(tree, wdl) ==
  LET tb_side_black == (tree.ply % 2) = 0
  IN IF wdl = WDL_WIN
     THEN (IF tb_side_black THEN BLACK_WON ELSE WHITE_WON)
     ELSE IF wdl = WDL_LOSS
     THEN (IF tb_side_black THEN WHITE_WON ELSE BLACK_WON)
     ELSE DRAW
TablebaseResult(tree, wdl) ==
  LET tb_side_black == (tree.ply % 2) = 1
  IN IF wdl = WDL_WIN
     THEN (IF tb_side_black THEN BLACK_WON ELSE WHITE_WON)
     ELSE IF wdl = WDL_LOSS
     THEN (IF tb_side_black THEN WHITE_WON ELSE BLACK_WON)
     ELSE DRAW

\* The tablebase is configured, the position is probed and the probe is
\* usable (lines 121-132).
\* The state != FAIL test left out.
ProbeUsable_AnyState(tree) ==
  /\ syzygy_tb
  /\ TablebaseEligible(tree.board)
ProbeUsable(tree) ==
  /\ syzygy_tb
  /\ TablebaseEligible(tree.board)
  /\ probe_wdl(tree.board).state # FAIL

\* results_[i] == GameResult::UNDECIDED, the test of the three loops.
\* The test left out.
IsUndecided_Always(g) == TRUE
IsUndecided(g) == results[g] = UNDECIDED

\* The body of the first for loop for session g: what it leaves in results_,
\* all_done and blacks_move.
\* blacks_move assigned for every UNDECIDED session, not the first only.
ScanSession_LastFixesSide(g) ==
  LET tree == trees[g]
      same == [results |-> results, all_done |-> all_done,
               blacks_move |-> blacks_move]
  IN IF ~IsUndecided(g) THEN same
     ELSE IF ComputeGameResult(tree) # UNDECIDED
     THEN [same EXCEPT !.results = [results EXCEPT ![g] = ComputeGameResult(tree)]]
     ELSE IF ProbeUsable(tree)
     THEN [same EXCEPT !.results =
             [results EXCEPT ![g] = TablebaseResult(tree, probe_wdl(tree.board).wdl)]]
     ELSE [same EXCEPT !.all_done = FALSE, !.blacks_move = IsBlackToMove(tree)]
\* Lines 146-150 placed inside the if (syzygy_tb_ != nullptr) block.
ScanSession_FlagInsideProbeBlock(g) ==
  LET tree == trees[g]
      same == [results |-> results, all_done |-> all_done,
               blacks_move |-> blacks_move]
  IN IF ~IsUndecided(g) THEN same
     ELSE IF ComputeGameResult(tree) # UNDECIDED
     THEN [same EXCEPT !.results = [results EXCEPT ![g] = ComputeGameResult(tree)]]
     ELSE IF ProbeUsable(tree)
     THEN [same EXCEPT !.results =
             [results EXCEPT ![g] = TablebaseResult(tree, probe_wdl(tree.board).wdl)]]
     ELSE IF all_done /\ syzygy_tb
     THEN [same EXCEPT !.all_done = FALSE, !.blacks_move = IsBlackToMove(tree)]
     ELSE same
ScanSession(g) ==
  LET tree == trees[g]
      same == [results |-> results, all_done |-> all_done,
               blacks_move |-> blacks_move]
  IN IF ~IsUndecided(g) THEN same
     ELSE IF ComputeGameResult(tree) # UNDECIDED
     THEN [same EXCEPT !.results = [results EXCEPT ![g] = ComputeGameResult(tree)]]
     ELSE IF ProbeUsable(tree)
     THEN [same EXCEPT !.results =
             [results EXCEPT ![g] = TablebaseResult(tree, probe_wdl(tree.board).wdl)]]
     ELSE IF all_done
     THEN [same EXCEPT !.all_done = FALSE, !.blacks_move = IsBlackToMove(tree)]
     ELSE same

\* One pass of the first for loop (lines 113-152).
Scan ==
  /\ pc = "scan"
  /\ i <= Len(trees)
  /\ results' = ScanSession(i).results
  /\ all_done' = ScanSession(i).all_done
  /\ blacks_move' = ScanSession(i).blacks_move
  /\ i' = i + 1
  /\ UNCHANGED <<trees, options, syzygy_tb, abort, evaluator, pc, openings, passed_over,
                 iter, calls>>

\* if (all_done) break; (line 153)
Finish ==
  /\ pc = "scan"
  /\ i > Len(trees)
  /\ all_done
  /\ pc' = "done"
  /\ UNCHANGED <<trees, results, options, syzygy_tb, abort, evaluator, i,
                 all_done, blacks_move, openings, passed_over, iter, calls>>

Call(op, g, slot, transform) ==
  [op |-> op, game |-> g, slot |-> slot, transform |-> transform]

\* if (all_done) break; left out.
ResetStep_WithoutAllDoneTest ==
  /\ pc = "scan"
  /\ i > Len(trees)
  /\ LET idx == IF blacks_move THEN 1 ELSE 0
     IN /\ evaluator' = Reset(evaluator, options[idx + 1])
        /\ calls' = Append(calls, Call("Reset", 0, idx, 0))
  /\ pc' = "gather"
  /\ i' = 1
  /\ UNCHANGED <<trees, results, options, syzygy_tb, abort, all_done,
                 blacks_move, openings, passed_over, iter>>
\* Reset called in the first iteration only (hoisted out of the loop).
ResetStep_FirstIterationOnly ==
  /\ pc = "scan"
  /\ i > Len(trees)
  /\ ~all_done
  /\ LET idx == IF blacks_move THEN 1 ELSE 0
     IN IF iter = 1
        THEN /\ evaluator' = Reset(evaluator, options[idx + 1])
             /\ calls' = Append(calls, Call("Reset", 0, idx, 0))
        ELSE UNCHANGED <<evaluator, calls>>
  /\ pc' = "gather"
  /\ i' = 1
  /\ UNCHANGED <<trees, results, options, syzygy_tb, abort, all_done,
                 blacks_move, openings, passed_over, iter>>
\* idx and evaluator->Reset(options_[idx]) (lines 154-155).
ResetStep ==
  /\ pc = "scan"
  /\ i > Len(trees)
  /\ ~all_done
  /\ LET idx == IF blacks_move THEN 1 ELSE 0
     IN /\ evaluator' = Reset(evaluator, options[idx + 1])
        /\ calls' = Append(calls, Call("Reset", 0, idx, 0))
  /\ pc' = "gather"
  /\ i' = 1
  /\ UNCHANGED <<trees, results, options, syzygy_tb, abort, all_done,
                 blacks_move, openings, passed_over, iter>>

\* The test of the second and of the third for loop (lines 158-161, 170-173).
\* The parity test inverted (== for != in lines 161 and 173).
Participates_OtherParity(g) ==
  /\ IsUndecided(g)
  /\ IsBlackToMove(trees[g]) # blacks_move
\* The parity test left out.
Participates_UndecidedOnly(g) == IsUndecided(g)
\* The results_ test left out.
Participates_ParityOnly(g) == IsBlackToMove(trees[g]) = blacks_move
Participates(g) ==
  /\ IsUndecided(g)
  /\ IsBlackToMove(trees[g]) = blacks_move

\* One pass of the second for loop (lines 156-166).
GatherStep ==
  /\ pc = "gather"
  /\ i <= Len(trees)
  /\ IF Participates(i)
     THEN LET tree == CreateEdges(trees[i], GenerateLegalMoves(trees[i].board))
              ev == Gather(evaluator, tree)
          IN /\ trees' = [trees EXCEPT ![i] = tree]
             /\ evaluator' = ev
             /\ calls' = Append(calls, Call("Gather", i, Len(ev.comp) - 1,
                                            ev.transforms[Len(ev.transforms)]))
     ELSE UNCHANGED <<trees, evaluator, calls>>
  /\ i' = i + 1
  /\ UNCHANGED <<results, options, syzygy_tb, abort, pc, all_done,
                 blacks_move, openings, passed_over, iter>>

\* evaluator->Run() (line 167).
\* Run followed by a second cancellation check.
RunStep_Abortable ==
  /\ pc = "gather"
  /\ i > Len(trees)
  /\ evaluator' = Run(evaluator)
  /\ calls' = Append(calls, Call("Run", 0, 0, 0))
  /\ pc' = IF abort THEN "done" ELSE "move"
  /\ i' = 1
  /\ UNCHANGED <<trees, results, options, syzygy_tb, abort, all_done,
                 blacks_move, openings, passed_over, iter>>
RunStep ==
  /\ pc = "gather"
  /\ i > Len(trees)
  /\ evaluator' = Run(evaluator)
  /\ calls' = Append(calls, Call("Run", 0, 0, 0))
  /\ pc' = "move"
  /\ i' = 1
  /\ UNCHANGED <<trees, results, options, syzygy_tb, abort, all_done,
                 blacks_move, openings, passed_over, iter>>

\* trees_.size(), the bound of the third for loop (line 168).
\* i < trees_.size() - 1.
MoveLoopBound_OneShort == Len(trees) - 1
MoveLoopBound == Len(trees)

\* One pass of the third for loop (lines 168-175).
MoveStep ==
  /\ pc = "move"
  /\ i <= MoveLoopBound
  /\ IF Participates(i)
     THEN LET r == MakeBestMove(evaluator, trees[i])
          IN /\ trees' = [trees EXCEPT ![i] = r.tree]
             /\ evaluator' = r.ev
             /\ calls' = Append(calls,
                                Call("MakeBestMove", i, evaluator.comp_idx,
                                     TransformAt(evaluator, evaluator.comp_idx)))
     ELSE UNCHANGED <<trees, evaluator, calls>>
  /\ i' = i + 1
  /\ UNCHANGED <<results, options, syzygy_tb, abort, pc, all_done,
                 blacks_move, openings, passed_over, iter>>

\* The end of the body of while (true): back to the cancellation check.
NextIteration ==
  /\ pc = "move"
  /\ i > MoveLoopBound
  /\ pc' = "check"
  /\ passed_over' =
       {g \in 1 .. Len(trees) :
          /\ results[g] = UNDECIDED
          /\ \A k \in 1 .. Len(calls) :
               ~(calls[k].op = "MakeBestMove" /\ calls[k].game = g)}
  /\ UNCHANGED <<trees, results, options, syzygy_tb, abort, evaluator, i,
                 all_done, blacks_move, openings, iter, calls>>

\* The steps of the thread that runs Play().
PlayStep ==
  \/ CheckAbort
  \/ Scan
  \/ Finish
  \/ ResetStep
  \/ GatherStep
  \/ RunStep
  \/ MoveStep
  \/ NextIteration

Next == Abort \/ PlayStep

Spec == Init /\ [][Next]_vars

\* Play() runs on its own thread and keeps running until it returns.
FairSpec == Spec /\ WF_vars(PlayStep)
\* ------------------------------------------------------------- the claims
\* The tree the constructor builds for game g.
ConstructedTree(g) ==
  ReplayMoves(ResetToPosition(openings[g].start_fen), openings[g].moves)

\* The Gather and the MakeBestMove calls of the iteration, in call order.
GatherCalls == SelectSeq(calls, LAMBDA c : c.op = "Gather")
MoveCalls == SelectSeq(calls, LAMBDA c : c.op = "MakeBestMove")
Decided == {WHITE_WON, BLACK_WON, DRAW}

\* C1: every result is UNDECIDED after construction, and a step of Play() or
\* Abort() changes a result only from UNDECIDED to WHITE_WON, BLACK_WON or
\* DRAW: a decided result is never written again.
C1_WriteOnce ==
  /\ \A g \in Games : results[g] = UNDECIDED
  /\ [][\A g \in Games :
          results'[g] # results[g]
            => results[g] = UNDECIDED /\ results'[g] \in Decided]_vars

\* A later scan has passed over a session that was decided before it.
C1_Witness ==
  /\ iter >= 2
  /\ pc = "gather"
  /\ \E g \in Games : results[g] # UNDECIDED /\ trees[g].edges = << >>
  /\ \E g \in Games : results[g] = UNDECIDED

\* The calls recorded so far in the iteration are aligned.
C2_AlignedState ==
  /\ Len(MoveCalls) <= Len(GatherCalls)
  /\ \A k \in 1 .. Len(MoveCalls) : MoveCalls[k] = [GatherCalls[k] EXCEPT !.op = "MakeBestMove"]
  /\ \A k \in 1 .. Len(GatherCalls) : GatherCalls[k].slot = k - 1
  /\ pc \in {"check", "done"} => Len(MoveCalls) = Len(GatherCalls)
  /\ pc = "gather" /\ i = 1 => evaluator.comp_idx = 0 /\ evaluator.transforms = << >>
\* A move applied to a session is a legal candidate of its position with the
\* greatest score of the due side's network for that position.
C2_OwnScores ==
  \A g \in Games :
    Len(trees'[g].moves) > Len(trees[g].moves) =>
      LET network == options[(IF blacks_move THEN 1 ELSE 0) + 1].network
          legal == GenerateLegalMoves(trees[g].board)
          best == trees'[g].moves[Len(trees'[g].moves)]
      IN /\ \E k \in 1 .. Len(legal) : legal[k] = best
         /\ \A k \in 1 .. Len(legal) :
              Policy(network, trees[g].board, legal[k])
                <= Policy(network, trees[g].board, best)

\* C2: within an iteration the MakeBestMove calls follow the Gather calls
\* session by session; the N-th MakeBestMove reads the slot and the transform
\* the N-th Gather filled, after every Reset the cursor and the transform log
\* restart, and the move applied has the best score the due side's network
\* gives for the session's own position.
C2_Alignment == [] C2_AlignedState /\ [][C2_OwnScores]_vars

\* Two sessions were moved in one batch of the canonical-format network, the
\* second one under a board flip.
C2_Witness ==
  /\ pc = "move"
  /\ Len(MoveCalls) >= 2
  /\ MoveCalls[2].transform = 1
  /\ MoveCalls[1].game # MoveCalls[2].game

\* Nothing has happened since construction.
C3_Untouched ==
  /\ \A g \in Games : results[g] = UNDECIDED /\ trees[g] = ConstructedTree(g)
  /\ calls = << >>
  /\ evaluator = NewPolicyEvaluator

\* C3: if abort_ is set when Play() makes its first cancellation check, Play()
\* returns at that check: every result is UNDECIDED, every tree is as
\* constructed and the Evaluator was never called.
C3_AbortBeforePlay ==
  /\ [](iter = 0 => C3_Untouched)
  /\ [][pc = "check" /\ iter = 0 /\ abort /\ pc' # pc
          => pc' = "done" /\ iter' = 0]_vars

\* Play() has returned at its first check although a session was already
\* checkmated and another one was resolvable by the tablebase.
C3_Witness ==
  /\ pc = "done"
  /\ iter = 0
  /\ abort
  /\ syzygy_tb
  /\ \E g \in Games : ComputeGameResult(trees[g]) # UNDECIDED
  /\ \E g \in Games : ComputeGameResult(trees[g]) = UNDECIDED /\ ProbeUsable(trees[g])

\* Play() can always step on, and between iterations no gathered session is
\* left without its move.
C4_State ==
  /\ pc # "done" => ENABLED PlayStep
  /\ pc \in {"check", "done"} =>
       /\ Len(MoveCalls) = Len(GatherCalls)
       /\ \A k \in 1 .. Len(GatherCalls) : MoveCalls[k].game = GatherCalls[k].game
\* Abort() touches abort_ only; the ways out of an iteration.
C4_Step ==
  /\ abort' # abort =>
       UNCHANGED <<trees, results, options, syzygy_tb, evaluator, pc, i,
                   all_done, blacks_move, openings, iter, calls>>
  /\ pc \in {"scan", "gather", "move"} /\ pc' = "done" =>
       pc = "scan" /\ i > Len(trees) /\ all_done
  /\ pc \in {"scan", "gather", "move"} /\ pc' = "check" =>
       pc = "move" /\ i > Len(trees)

\* C4: cancellation does not interrupt an iteration.  Abort() changes abort_
\* only; past the cancellation check Play() always has a next step, whatever
\* abort_ is, and leaves the iteration only at the all-done test or at the end
\* of the move loop; whenever Play() stands at the check or has returned,
\* every session gathered in the last iteration has received its move.
C4_IterationNotInterrupted == [] C4_State /\ [][C4_Step]_vars

\* abort_ was set while sessions were gathered, and both received their move.
C4_Witness ==
  /\ pc = "move"
  /\ i > Len(trees)
  /\ abort
  /\ Len(GatherCalls) = 2
  /\ Len(MoveCalls) = 2

\* What a step may do once abort_ is set, and once Play() has returned.
C5_Step ==
  /\ abort => abort'
  /\ abort /\ pc = "check" /\ pc' # pc =>
       /\ pc' = "done"
       /\ UNCHANGED <<trees, results, evaluator, calls, iter>>
  /\ pc = "done" =>
       UNCHANGED <<trees, results, evaluator, calls, iter, pc>>

\* C5: once abort_ is set it stays set; the next cancellation check ends
\* Play() without a scan, a result write or an Evaluator call, so the sessions
\* UNDECIDED at that check are UNDECIDED at return; after the return nothing
\* but abort_ changes; and a running Play() does reach that return.
C5_BoundedCancellation ==
  /\ [][C5_Step]_vars
  /\ abort ~> (pc = "done")

\* Play() has returned on an Abort() after at least one iteration, with a
\* decided and an UNDECIDED session.
C5_Witness ==
  /\ pc = "done"
  /\ abort
  /\ iter >= 1
  /\ \E g \in Games : results[g] = UNDECIDED /\ Len(trees[g].moves) > Len(openings[g].moves)
  /\ \E g \in Games : results[g] # UNDECIDED

\* A return without abort_ is taken at the all-done test with every session
\* decided.
C6_Step ==
  pc # "done" /\ pc' = "done" /\ ~abort =>
    /\ pc = "scan"
    /\ i > Len(trees)
    /\ \A g \in Games : results'[g] # UNDECIDED

\* C6: when Abort() is never called Play() returns; it returns without an
\* abort only at the all-done test after a scan, and then no result is
\* UNDECIDED.
C6_Completion ==
  /\ [][C6_Step]_vars
  /\ ([] ~abort) => <>(pc = "done" /\ \A g \in Games : results[g] # UNDECIDED)

\* Play() has returned without an abort after both sessions were played for
\* at least two plies each.
C6_Witness ==
  /\ pc = "done"
  /\ ~abort
  /\ \A g \in Games : results[g] # UNDECIDED
  /\ \A g \in Games : Len(trees[g].moves) >= Len(openings[g].moves) + 2
\* The scan is about to look at session g (the first loop stands at g).
ScanAt(g) == pc = "scan" /\ i = g /\ g \in Games
\* The game of the Evaluator call a step adds, 0 if it adds none for a game.
CalledGame ==
  IF Len(calls') = Len(calls) + 1 THEN calls'[Len(calls')].game ELSE 0

\* The scan of a terminal session, and the sessions Evaluator calls are made
\* for.
C7_Step ==
  /\ \A g \in Games :
       ScanAt(g) /\ i' = g + 1 /\ results[g] = UNDECIDED
         /\ ComputeGameResult(trees[g]) # UNDECIDED
       => results'[g] = ComputeGameResult(trees[g])
  /\ CalledGame # 0 =>
       /\ results[CalledGame] = UNDECIDED
       /\ ComputeGameResult(trees[CalledGame]) = UNDECIDED
\* After the gather loop every UNDECIDED due session has been gathered.
C7_State ==
  pc = "gather" /\ i > Len(trees) =>
    \A g \in Games :
      results[g] = UNDECIDED /\ IsBlackToMove(trees[g]) = blacks_move
        => \E k \in 1 .. Len(GatherCalls) : GatherCalls[k].game = g

\* C7: a session that is UNDECIDED and whose position is terminal for the
\* rules engine gets that result in the scan that looks at it; no Gather and
\* no MakeBestMove is ever called for a session whose position is terminal or
\* whose result is decided; the sessions that are UNDECIDED and due after the
\* scan are all gathered.
C7_TerminalResolved == [] C7_State /\ [][C7_Step]_vars

\* A session constructed in a checkmate was resolved by the first scan with
\* no Evaluator call for it, and the other session is being moved in the
\* second iteration.
C7_Witness ==
  /\ iter = 2
  /\ pc = "move"
  /\ \E g \in Games :
       /\ ComputeGameResult(ConstructedTree(g)) \in {WHITE_WON, BLACK_WON}
       /\ results[g] = ComputeGameResult(ConstructedTree(g))
       /\ trees[g] = ConstructedTree(g)
  /\ \E k \in 1 .. Len(MoveCalls) :
       Len(trees[MoveCalls[k].game].moves)
         = Len(openings[MoveCalls[k].game].moves) + 2

\* The session the scan looks at is UNDECIDED, not terminal, and probed.
ProbedAt(g) ==
  /\ ScanAt(g)
  /\ i' = g + 1
  /\ results[g] = UNDECIDED
  /\ ComputeGameResult(trees[g]) = UNDECIDED
  /\ syzygy_tb
  /\ TablebaseEligible(trees[g].board)

\* The result a usable probe leaves, stated from the ply count and the WDL.
C8_Step ==
  \A g \in Games :
    ProbedAt(g) /\ probe_wdl(trees[g].board).state # FAIL =>
      LET wdl == probe_wdl(trees[g].board).wdl
          even == trees[g].ply % 2 = 0
      IN /\ wdl = WDL_WIN => results'[g] = IF even THEN WHITE_WON ELSE BLACK_WON
         /\ wdl = WDL_LOSS => results'[g] = IF even THEN BLACK_WON ELSE WHITE_WON
         /\ wdl \in {WDL_DRAW, WDL_CURSED_WIN, WDL_BLESSED_LOSS} => results'[g] = DRAW

\* C8: a probe with a status other than FAIL records the mover's colour on a
\* win (WHITE_WON on an even ply count, BLACK_WON on an odd one), the other
\* colour on a loss, and DRAW for a draw, a cursed win and a blessed loss.
C8_TablebaseTranslation == [][C8_Step]_vars

\* A won endgame with black to move was recorded as BLACK_WON, and a lost
\* endgame with black to move as WHITE_WON.
C8_Witness ==
  /\ syzygy_tb
  /\ \E g \in Games :
       /\ results[g] = BLACK_WON
       /\ probe_wdl(trees[g].board) = [state |-> OK, wdl |-> WDL_WIN]
       /\ trees[g].ply % 2 = 1
  /\ \E g \in Games :
       /\ results[g] = WHITE_WON
       /\ probe_wdl(trees[g].board) = [state |-> OK, wdl |-> WDL_LOSS]
       /\ trees[g].ply % 2 = 1

\* The scan of a session whose probe fails.
C9_Step ==
  \A g \in Games :
    ProbedAt(g) /\ probe_wdl(trees[g].board).state = FAIL =>
      /\ results' = results
      /\ all_done' = FALSE
      /\ blacks_move' = IF all_done THEN IsBlackToMove(trees[g]) ELSE blacks_move
\* Session g is UNDECIDED, of the due side, and its probe fails.
C9_FailPending(g) ==
  /\ syzygy_tb
  /\ results[g] = UNDECIDED
  /\ ComputeGameResult(trees[g]) = UNDECIDED
  /\ TablebaseEligible(trees[g].board)
  /\ probe_wdl(trees[g].board).state = FAIL
  /\ IsBlackToMove(trees[g]) = blacks_move
\* Such a session is gathered, and every gathered session is moved.
C9_State ==
  \A g \in Games :
    /\ pc = "gather" /\ i > g /\ C9_FailPending(g)
         => \E k \in 1 .. Len(GatherCalls) : GatherCalls[k].game = g
    /\ pc = "move" /\ i > g
         /\ (\E k \in 1 .. Len(GatherCalls) : GatherCalls[k].game = g)
         => \E k \in 1 .. Len(MoveCalls) : MoveCalls[k].game = g

\* C9: a probe that returns FAIL writes no result; the session clears
\* all_done and, when it is the first such session of the scan, fixes the due
\* side by its parity, as an unprobed session does; a FAIL session of the due
\* side is gathered in that iteration and has its move when the iteration
\* ends.
C9_ProbeFailIgnored == [] C9_State /\ [][C9_Step]_vars

\* A session whose probe failed was left UNDECIDED by the scan and has been
\* moved in the same iteration.
C9_Witness ==
  /\ syzygy_tb
  /\ pc = "check"
  /\ iter = 1
  /\ \E g \in Games :
       /\ TablebaseEligible(ConstructedTree(g).board)
       /\ probe_wdl(ConstructedTree(g).board).state = FAIL
       /\ results[g] = UNDECIDED
       /\ Len(trees[g].moves) = Len(openings[g].moves) + 1

\* C10: two sessions built from the same opening are in the same position,
\* with the same moves played and the same result, at every cancellation
\* check and when Play() has returned.
C10_Determinism ==
  pc \in {"check", "done"} =>
    \A g, h \in Games :
      openings[g] = openings[h] =>
        trees[g] = trees[h] /\ results[g] = results[h]

\* Play() has returned with two sessions of one opening that were played for
\* three plies and decided.
C10_Witness ==
  /\ pc = "done"
  /\ \E g, h \in Games :
       /\ g # h
       /\ openings[g] = openings[h]
       /\ Len(trees[g].moves) >= Len(openings[g].moves) + 3
       /\ results[g] # UNDECIDED

\* The network of the side to move in a tree (options_[idx]).
NetworkToMove(tree) == options[(IF IsBlackToMove(tree) THEN 1 ELSE 0) + 1].network
\* The places in the enumeration of the legal moves of a board whose score
\* under a network is the greatest.
TopPlaces(network, board) ==
  LET legal == GenerateLegalMoves(board)
  IN {k \in 1 .. Len(legal) :
        \A j \in 1 .. Len(legal) :
          Policy(network, board, legal[j]) <= Policy(network, board, legal[k])}
\* The move a step applies to session g is the latest-enumerated candidate of
\* greatest score.
C11_Step ==
  \A g \in Games :
    Len(trees'[g].moves) > Len(trees[g].moves) =>
      LET legal == GenerateLegalMoves(trees[g].board)
          top == TopPlaces(NetworkToMove(trees[g]), trees[g].board)
          last == CHOOSE k \in top : \A j \in top : j <= k
      IN /\ top # {}
         /\ trees'[g].moves = Append(trees[g].moves, legal[last])

\* C11: the move MakeBestMove applies is a legal candidate of maximal score,
\* and among several candidates of maximal score it is the one latest in the
\* enumeration order.
C11_TieBreak == [][C11_Step]_vars

\* A session's first move was chosen among two candidates of equal, maximal
\* score, and it is the later one, not the earlier.
C11_Witness ==
  \E g \in Games :
    LET before == ConstructedTree(g)
        top == TopPlaces(NetworkToMove(before), before.board)
        legal == GenerateLegalMoves(before.board)
    IN /\ Len(trees[g].moves) = Len(before.moves) + 1
       /\ Cardinality(top) = 2
       /\ \E j, k \in top :
            /\ j < k
            /\ legal[j] # legal[k]
            /\ trees[g].moves[Len(trees[g].moves)] = legal[k]

\* After the return of Play() a step changes nothing but abort_; abort_ is
\* never cleared; and where a step after the return does change abort_, no
\* session is UNDECIDED, so that a scan would write nothing and find all done
\* whatever abort_ is.
C12_Step ==
  /\ abort => abort'
  /\ pc = "done" =>
       UNCHANGED <<trees, results, options, syzygy_tb, evaluator, pc, i,
                   all_done, blacks_move, openings, iter, calls>>
  /\ pc = "done" /\ abort' # abort =>
       \A g \in Games :
         /\ results[g] # UNDECIDED
         /\ ScanSession(g).results = results
         /\ ScanSession(g).all_done = all_done

\* C12: Abort() can be called at any time and any number of times; called
\* after Play() has returned it changes no result and no tree, and it leaves
\* nothing a later scan or cancellation check could act on differently:
\* either abort_ was set already, or every session is decided.
C12_AbortAfterReturn == [](ENABLED Abort) /\ [][C12_Step]_vars

\* Play() has returned with every session decided after three iterations, and
\* abort_ is set.
C12_Witness ==
  /\ pc = "done"
  /\ abort
  /\ iter >= 3
  /\ all_done
  /\ \A g \in Games : results[g] # UNDECIDED

\* The operations of the Evaluator calls of the iteration, in call order.
CallOps == [k \in 1 .. Len(calls) |-> calls[k].op]
\* The calls made so far in the iteration are a prefix of
\* Reset, Gather*, Run, MakeBestMove* with no more MakeBestMove than Gather.
C13_State ==
  /\ pc = "scan" => calls = << >>
  /\ calls # << >> => CallOps[1] = "Reset"
  /\ \A k \in 2 .. Len(calls) : CallOps[k] # "Reset"
  /\ \A j, k \in 1 .. Len(calls) :
       j < k =>
         /\ CallOps[k] = "Gather" => CallOps[j] \in {"Reset", "Gather"}
         /\ CallOps[k] = "Run" => CallOps[j] \in {"Reset", "Gather"}
         /\ CallOps[j] = "Run" => CallOps[k] = "MakeBestMove"
  /\ \A k \in 1 .. Len(calls) :
       CallOps[k] = "MakeBestMove" => \E j \in 1 .. k - 1 : CallOps[j] = "Run"
  /\ Len(MoveCalls) <= Len(GatherCalls)
  /\ pc \in {"gather", "move"} => calls # << >>
  /\ pc = "move" => \E k \in 1 .. Len(calls) : CallOps[k] = "Run"
  /\ pc = "check" /\ iter >= 1 =>
       /\ \E k \in 1 .. Len(calls) : CallOps[k] = "Run"
       /\ Len(MoveCalls) = Len(GatherCalls)
\* A step makes at most one Evaluator call, and only Play() past the all-done
\* test makes one.
C13_Step ==
  /\ calls' # calls /\ calls' # << >> =>
       /\ Len(calls') = Len(calls) + 1
       /\ \A k \in 1 .. Len(calls) : calls'[k] = calls[k]
       /\ pc' \in {"gather", "move"}

\* C13: in every iteration that passes the cancellation check and the
\* all-done test the Evaluator calls are one Reset, then the Gather calls,
\* then one Run, then as many MakeBestMove calls as Gather calls; no Gather or
\* MakeBestMove comes without the Reset of its iteration, and no MakeBestMove
\* before the Run.
C13_ProtocolOrder == [] C13_State /\ [][C13_Step]_vars

\* The third iteration has made Reset, two Gather, Run and two MakeBestMove
\* calls.
C13_Witness ==
  /\ iter = 3
  /\ pc = "check"
  /\ CallOps = <<"Reset", "Gather", "Gather", "Run", "MakeBestMove", "MakeBestMove">>

\* The side the iteration's Reset was called for (idx of line 154).
ResetSide == calls[1].slot
\* The session a step calls Gather or MakeBestMove for is UNDECIDED and has
\* the parity of the due side, before the call.
C14_Step ==
  CalledGame # 0 =>
    /\ results[CalledGame] = UNDECIDED
    /\ IsBlackToMove(trees[CalledGame]) = blacks_move
    /\ (trees[CalledGame].ply % 2 = 1) <=> (ResetSide = 1)

\* C14: every session passed to Gather or to MakeBestMove is UNDECIDED at the
\* call and its ply count is odd exactly if the due side of the iteration is
\* side 1.
C14_OnlyDueUndecided == [][C14_Step]_vars

\* In an iteration for side 1 one session was gathered and moved while the
\* other, UNDECIDED with white to move, was passed over.
C14_Witness ==
  /\ pc = "move"
  /\ i > Len(trees)
  /\ ResetSide = 1
  /\ Len(GatherCalls) = 1
  /\ Len(MoveCalls) = 1
  /\ \E g \in Games :
       /\ g # MoveCalls[1].game
       /\ results[g] = UNDECIDED
       /\ ~IsBlackToMove(trees[g])
       /\ trees[g] = ConstructedTree(g)

\* The sessions that are UNDECIDED.
UndecidedGames == {g \in Games : results[g] = UNDECIDED}
\* The lowest-indexed UNDECIDED session.
FirstUndecided == CHOOSE g \in UndecidedGames : \A h \in UndecidedGames : g <= h
\* After the scan all_done tells whether no session is UNDECIDED, and
\* otherwise blacks_move is the parity of the lowest-indexed UNDECIDED session;
\* it stays so until the first move of the iteration.
C15_State ==
  (pc = "scan" /\ i > Len(trees)) \/ pc = "gather" \/ (pc = "move" /\ MoveCalls = << >>)
    => /\ all_done <=> UndecidedGames = {}
       /\ ~all_done => blacks_move = IsBlackToMove(trees[FirstUndecided])
\* Reset is called with the options stored at the due side's index, and a
\* move is applied to a session with the network of the side to move in it.
C15_Step ==
  /\ Len(calls') = 1 /\ calls = << >> =>
       /\ UndecidedGames # {}
       /\ calls'[1].op = "Reset"
       /\ calls'[1].slot = IF trees[FirstUndecided].ply % 2 = 1 THEN 1 ELSE 0
       /\ evaluator'.network = options[calls'[1].slot + 1].network
       /\ evaluator'.input_format = InputFormatOf(evaluator'.network)
  /\ \A g \in Games :
       Len(trees'[g].moves) > Len(trees[g].moves) =>
         evaluator.network = NetworkToMove(trees[g])

\* C15: in every iteration that reaches the Evaluator the due side is the ply
\* parity of the lowest-indexed session that is UNDECIDED after the scan,
\* Reset is called with the PlayerOptions at that side's index, and every move
\* is chosen with the options of the side to move in its session.
C15_DueSide == [] C15_State /\ [][C15_Step]_vars

\* Reset was called for side 1 because the first session has black to move,
\* while the second session, also UNDECIDED, has white to move.
C15_Witness ==
  /\ pc = "gather"
  /\ i = 1
  /\ UndecidedGames = Games
  /\ IsBlackToMove(trees[1])
  /\ ~IsBlackToMove(trees[2])
  /\ ResetSide = 1
  /\ evaluator.network = options[2].network

\* The sessions Gather, and MakeBestMove, were called for in the iteration.
GatheredGames == {GatherCalls[k].game : k \in 1 .. Len(GatherCalls)}
MovedGames == {MoveCalls[k].game : k \in 1 .. Len(MoveCalls)}
\* The position of a tree: what the scan, the probe and the network see.
PositionOf(tree) == [board |-> tree.board, ply |-> tree.ply, moves |-> tree.moves]
\* A step changes the position of a session only by a MakeBestMove call for
\* it, which appends one move and adds one ply; a step of the scan or a
\* Gather call changes no position.
C16_Step ==
  /\ \A g \in Games :
       PositionOf(trees'[g]) # PositionOf(trees[g]) =>
         /\ pc = "move"
         /\ CalledGame = g
         /\ calls'[Len(calls')].op = "MakeBestMove"
         /\ trees'[g].ply = trees[g].ply + 1
         /\ Len(trees'[g].moves) = Len(trees[g].moves) + 1
         /\ trees'[g].board = ApplyMove(trees[g].board, trees'[g].moves[Len(trees'[g].moves)])
  /\ CalledGame # 0 /\ calls'[Len(calls')].op = "MakeBestMove" =>
       trees'[CalledGame].ply = trees[CalledGame].ply + 1
  /\ pc \in {"scan", "gather"} =>
       \A g \in Games : PositionOf(trees'[g]) = PositionOf(trees[g])
\* No session gets two calls of one kind in an iteration; when the gather
\* loop ends the gathered sessions are the UNDECIDED sessions of the due
\* parity; when the move loop ends the moved sessions are the gathered ones.
C16_State ==
  /\ Cardinality(GatheredGames) = Len(GatherCalls)
  /\ Cardinality(MovedGames) = Len(MoveCalls)
  /\ pc = "gather" /\ i > Len(trees) =>
       GatheredGames = {g \in Games : results[g] = UNDECIDED
                                       /\ IsBlackToMove(trees[g]) = blacks_move}
  /\ pc = "move" =>
       \A g \in Games :
         /\ g \in MovedGames => IsBlackToMove(trees[g]) # blacks_move
         /\ g \in GatheredGames \ MovedGames => IsBlackToMove(trees[g]) = blacks_move
  /\ pc = "move" /\ i > Len(trees) => MovedGames = GatheredGames

\* C16: in an iteration every session that is UNDECIDED after the scan and of
\* the due parity gets exactly one MakeBestMove, which applies one move and
\* adds one ply; the position and the ply count of every other session, and
\* of every session during the scan and the gather loop, stay as they are.
C16_OnePly == [] C16_State /\ [][C16_Step]_vars

\* At the end of an iteration one session has been moved by one ply and the
\* other, UNDECIDED but not due, is where the constructor left it.
C16_Witness ==
  /\ pc = "move"
  /\ i > Len(trees)
  /\ iter = 1
  /\ \E g, h \in Games :
       /\ MovedGames = {g}
       /\ trees[g].ply = ConstructedTree(g).ply + 1
       /\ h # g
       /\ results[h] = UNDECIDED
       /\ PositionOf(trees[h]) = PositionOf(ConstructedTree(h))

\* The move loop of the iteration has ended.
IterationEnd == pc = "move" /\ i > Len(trees)
\* Session g was UNDECIDED after the scan of the iteration that ends here, and
\* was passed over as not due.
SkippedAsNotDue(g) ==
  /\ IterationEnd
  /\ results[g] = UNDECIDED
  /\ g \notin MovedGames
\* Session g was gathered and moved in the iteration that ends here.
GatheredAndMoved(g) ==
  /\ IterationEnd
  /\ g \in GatheredGames
  /\ g \in MovedGames

\* C17: a session passed over as not due in one iteration is, if the next
\* iteration's scan leaves it UNDECIDED, gathered and moved in that next
\* iteration; no session is passed over in two iterations running.
C17_NoStarvation ==
  IterationEnd /\ iter >= 2 =>
    \A g \in passed_over :
      /\ results[g] = UNDECIDED => GatheredAndMoved(g)
      /\ ~SkippedAsNotDue(g)

\* The second iteration ends with a session that was passed over in the first
\* iteration and moved in the second, next to one moved in both.
C17_Witness ==
  /\ IterationEnd
  /\ iter = 2
  /\ \E g, h \in Games :
       /\ g \in passed_over
       /\ h \notin passed_over
       /\ GatheredAndMoved(g)
       /\ Len(trees[g].moves) = Len(openings[g].moves) + 1
       /\ GatheredAndMoved(h)
       /\ Len(trees[h].moves) = Len(openings[h].moves) + 2

\* C18: when an iteration has completed, every UNDECIDED session has the ply
\* parity opposite to that iteration's due side, so all of them have the same
\* parity; from the second iteration on, every session the scan leaves
\* UNDECIDED is gathered and moved in that iteration.
C18_ParitySync ==
  /\ (IterationEnd \/ (pc \in {"check", "done"} /\ iter >= 1)) =>
       \A g \in UndecidedGames : IsBlackToMove(trees[g]) # blacks_move
  /\ pc = "gather" /\ i > Len(trees) /\ iter >= 2 => GatheredGames = UndecidedGames
  /\ IterationEnd /\ iter >= 2 => MovedGames = UndecidedGames

\* The openings had different parities, both sessions are still UNDECIDED,
\* and the first iteration has left them with the same parity.
C18_Witness ==
  /\ IterationEnd
  /\ iter = 1
  /\ UndecidedGames = Games
  /\ IsBlackToMove(ConstructedTree(1)) # IsBlackToMove(ConstructedTree(2))
  /\ IsBlackToMove(trees[1]) = IsBlackToMove(trees[2])
  /\ ComputeGameResult(trees[1]) = UNDECIDED
  /\ ComputeGameResult(trees[2]) = UNDECIDED

\* The operation of the Evaluator call a step adds, "" if it adds none.
CalledOp ==
  IF Len(calls') = Len(calls) + 1 THEN calls'[Len(calls')].op ELSE ""
\* Reset is called with a session UNDECIDED; Run is called on a batch that
\* holds at least the lowest-indexed UNDECIDED session, the one that fixed the
\* due side.
C19_Step ==
  /\ CalledOp = "Reset" => UndecidedGames # {} /\ ~all_done
  /\ CalledOp = "Run" =>
       /\ Len(GatherCalls) >= 1
       /\ evaluator.comp # << >>
       /\ Len(evaluator'.comp) = Len(GatherCalls)
       /\ UndecidedGames # {}
       /\ FirstUndecided \in GatheredGames
       /\ IsBlackToMove(trees[FirstUndecided]) = blacks_move

\* C19: whenever Play() calls Run at least one Gather call was made since the
\* Reset before it, the session that fixed the due side being UNDECIDED and of
\* the due parity; Run is never called on an empty batch and Reset never when
\* every session is decided.
C19_NonEmptyBatch == [][C19_Step]_vars

\* Run was called on a batch of one: the other session was decided by the
\* scan of this iteration or before.
C19_Witness ==
  /\ pc = "move"
  /\ i = 1
  /\ evaluator.computed
  /\ Len(evaluator.comp) = 1
  /\ Cardinality(UndecidedGames) = 1
  /\ iter >= 2

\* The result the scan records on a tree, UNDECIDED if it records none.
RecordedOn(tree) ==
  IF ComputeGameResult(tree) # UNDECIDED THEN ComputeGameResult(tree)
  ELSE IF ProbeUsable(tree)
  THEN TablebaseResult(tree, probe_wdl(tree.board).wdl)
  ELSE UNDECIDED
\* A decided session stands on the position its result was recorded on, with
\* no move candidates created on it.
C20_State ==
  \A g \in Games :
    results[g] # UNDECIDED =>
      /\ results[g] = RecordedOn(trees[g])
      /\ trees[g].edges = << >>
\* No step changes the tree of a decided session or calls the Evaluator for
\* it, and the scan passes over it without a write.
C20_Step ==
  \A g \in Games :
    results[g] # UNDECIDED =>
      /\ trees'[g] = trees[g]
      /\ CalledGame # g
      /\ ScanAt(g) /\ i' = g + 1 =>
           UNCHANGED <<trees, results, all_done, blacks_move, evaluator, calls>>

\* C20: once a session's result is decided no step of Play() applies a move
\* to it, creates move candidates on it or looks at it again in the scan; its
\* position when Play() returns is the position its result was recorded on.
C20_DecidedFrozen == [] C20_State /\ [][C20_Step]_vars

\* Play() has returned; one session was decided by the first scan and stands
\* where the constructor left it, the other was played on for two more plies.
C20_Witness ==
  /\ pc = "done"
  /\ iter >= 3
  /\ \E g, h \in Games :
       /\ results[g] # UNDECIDED
       /\ trees[g] = ConstructedTree(g)
       /\ results[h] # UNDECIDED
       /\ Len(trees[h].moves) >= Len(openings[h].moves) + 2
====
